---- MODULE Spec2Model ----
(***************************************************************************)
(* Repository mirroring GitHub -> Azure DevOps: the four script variants   *)
(* of the repository (may25, may26, jun2, jun15) as one state machine.     *)
(* The variant is fixed in the initial state; every action is translated   *)
(* from the variant's code.  The platforms (GitHub, Azure DevOps, git) are *)
(* the environment: every external call either succeeds with its          *)
(* documented effect or fails.                                             *)
(***************************************************************************)
EXTENDS Naturals, Sequences, FiniteSets, TLC

(* ------------------------------------------------------------------ *)
(* Bounds                                                               *)
(* ------------------------------------------------------------------ *)

\* Largest number of commits on a source repository's default branch.
MaxCommits == 2

(* ------------------------------------------------------------------ *)
(* Script variants                                                      *)
(* ------------------------------------------------------------------ *)

Variants == {"may25", "may26", "jun2", "jun15"}

\* The variants that dispatch through concurrent.futures.ThreadPoolExecutor.
UsesThreadPool(v) == v \in {"may25", "may26"}

(* ------------------------------------------------------------------ *)
(* Names: a repository name is a sequence of characters                 *)
(* ------------------------------------------------------------------ *)

RESTRICTED_PREFIX == <<"r", "e", "s", "t", "r", "i", "c", "t", "e", "d">>

ASSET_PREFIX == <<"a", "s", "s", "e", "t">>

\* str.startswith
startswith(name, prefix) ==
    /\ Len(name) >= Len(prefix)
    /\ SubSeq(name, 1, Len(prefix)) = prefix

\* The literal of the third conjunct of main's filter: "gh", "skill", "pet".
REQUIRED_PREFIX(v) ==
    CASE v = "may25" -> <<"g", "h">>
      [] v = "may26" -> <<"s", "k", "i", "l", "l">>
      [] v = "jun2"  -> <<"s", "k", "i", "l", "l">>
      [] v = "jun15" -> <<"p", "e", "t">>

\* Mutant of PassesFilter: the comprehension without its condition.
PassesFilter_unfiltered(v, name) == TRUE

\* The condition of the list comprehension that filters source_repos.
PassesFilter(v, name) ==
    /\ ~startswith(name, RESTRICTED_PREFIX)
    /\ (v = "may25" => ~startswith(name, ASSET_PREFIX))
    /\ startswith(name, REQUIRED_PREFIX(v))

\* "Replace period at beginning of repo_name with underscore"
ReplaceLeadingPeriod(name) ==
    IF startswith(name, <<".">>) THEN <<"_">> \o SubSeq(name, 2, Len(name)) ELSE name

\* The names the model draws repositories from, in the order GitHub lists
\* them (full_name order): two names carrying the variant's required
\* prefix, a restricted one, an asset one.
NameList(v) ==
    << ASSET_PREFIX \o <<"-", "d">>,
       REQUIRED_PREFIX(v) \o <<"-", "a">>,
       REQUIRED_PREFIX(v) \o <<"-", "b">>,
       RESTRICTED_PREFIX \o <<"-", "c">> >>

Range(s) == {s[i] : i \in 1..Len(s)}

\* Names with a leading period and the name the rewrite maps them to; used
\* where the entry points are called directly.
DotNames == { <<".", "f", "o", "o">>, <<"_", "f", "o", "o">> }

AllNames == UNION {Range(NameList(v)) : v \in Variants} \cup DotNames

(* ------------------------------------------------------------------ *)
(* Git content                                                          *)
(* ------------------------------------------------------------------ *)

\* Number of commits on a destination branch that this tool did not write.
PriorCommits == 2

\* Python's None and the one branch name a non-empty repository reports.
\* f"HEAD:refs/heads/{default_branch}" formats None as the text "None".
None == "None"

BranchNames == {"main", None}

\* A file of a working tree; glob("*") does not match the hidden one.
SourceFiles == {"plain", "hidden"}

IsHidden(f) == f = "hidden"

NoCommit == [kind |-> "none"]

\* The head of the default branch of source repository n with c commits.
SourceHead(n, c) ==
    [kind |-> "original", repo |-> n, files |-> SourceFiles, depth |-> c,
     message |-> "source"]

\* A commit made on the destination on top of the source head of n.
AheadCommit(n, c) ==
    [kind |-> "ahead", repo |-> n, files |-> SourceFiles \cup {"ado-only"},
     depth |-> c + 1, message |-> "edited on destination"]

\* History on the destination unrelated to the source.
ForeignCommit ==
    [kind |-> "foreign", repo |-> <<>>, files |-> {"old"}, depth |-> PriorCommits,
     message |-> "old"]

FilesOf(c) == IF c = NoCommit THEN {} ELSE c.files

\* Number of commits reachable from c.
DepthOf(c) == IF c = NoCommit THEN 0 ELSE c.depth

\* d is a descendant of c (c can be fast-forwarded to d).
Descends(d, c) ==
    /\ d.kind = "ahead"
    /\ c.kind = "original"
    /\ d.repo = c.repo
    /\ d.depth = c.depth + 1

NoRefs == [b \in BranchNames |-> NoCommit]

NoAdoRepo == [exists |-> FALSE, refs |-> NoRefs]

NoGithubRepo == [exists |-> FALSE, commits |-> 0]

(* ------------------------------------------------------------------ *)
(* State                                                                *)
(* ------------------------------------------------------------------ *)

VARIABLES
    variant,            \* which script runs
    github,             \* source platform: name -> repository
    ado,                \* destination platform: name -> repository
    ado0,               \* the destination as it was when the model started
    scratch,            \* local filesystem: scratch path (keyed by name) -> state
    pc,                 \* main's position
    run,                \* number of the current run of main
    source_repos,       \* main's filtered source list (names, in list order)
    destination_repos,  \* main's destination listing (set of names)
    new_repos,          \* main's list of repositories to create
    existing_repos,     \* main's list of repositories to synchronize
    idx,                \* loop index of the sequential variants
    create,             \* per name: the create_ado_repository call of this run
    xfer,               \* per name: the transfer call of this run
    collected,          \* the calls whose outcome main has received
    createReqs,         \* create requests sent to the destination platform
    pushes,             \* force pushes attempted
    dispatched,         \* per name: transfer calls main has made in this run
    mirrored,           \* the names the previous run created and pushed with success
    anyFailure          \* an external call has failed

vars == <<variant, github, ado, ado0, scratch, pc, run, source_repos,
          destination_repos, new_repos, existing_repos, idx, create, xfer,
          collected, createReqs, pushes, dispatched, mirrored, anyFailure>>

\* A transfer call that has not been made.
NoXfer ==
    [fn |-> "none", at |-> 0, branch |-> "unset", dst |-> <<>>, path |-> <<>>,
     clonedInto |-> "unset", head |-> NoCommit, ran |-> {}, failedAt |-> "none",
     result |-> "none"]

\* default_branch of a source repository: None for one with no commits.
default_branch(repo) == IF repo.commits = 0 THEN None ELSE "main"

\* The concrete names of the variant's list.
NameA(v) == REQUIRED_PREFIX(v) \o <<"-", "a">>

NameB(v) == REQUIRED_PREFIX(v) \o <<"-", "b">>

\* What the destination may hold for a name before the first run.
DestKinds == {"absent", "foreign", "ahead"}

AdoRepoOf(kind, n, src) ==
    CASE kind = "absent"  -> NoAdoRepo
      [] kind = "foreign" -> [exists |-> TRUE, refs |-> [NoRefs EXCEPT !["main"] = ForeignCommit]]
      [] kind = "ahead"   -> [exists |-> TRUE,
                              refs |-> [NoRefs EXCEPT !["main"] = AheadCommit(n, src.commits)]]

\* The source repositories a selectable name may stand for.
SourceShapes ==
    {NoGithubRepo} \cup {[exists |-> TRUE, commits |-> c] : c \in 0..MaxCommits}

\* All calls of a run not yet made.
NoCalls == [n \in AllNames |-> "none"]

NoXfers == [n \in AllNames |-> NoXfer]

\* main before its first statement.
MainAtStart ==
    /\ pc = "start"
    /\ run = 1
    /\ source_repos = <<>>
    /\ destination_repos = {}
    /\ new_repos = <<>>
    /\ existing_repos = <<>>
    /\ idx = 0
    /\ create = NoCalls
    /\ xfer = NoXfers
    /\ collected = {}
    /\ createReqs = {}
    /\ pushes = {}
    /\ dispatched = [n \in AllNames |-> 0]
    /\ mirrored = {}
    /\ anyFailure = FALSE

\* The platforms main of any variant runs against: a small source account
\* and destination project.  The two selectable names may be missing, empty
\* or hold up to MaxCommits commits; the filtered-out names are present; the
\* destination may already hold the selectable names and the restricted one.
InitPlatforms ==
    /\ variant \in Variants
    /\ \E sa \in SourceShapes, sb \in SourceShapes :
          github = [n \in AllNames |->
                      IF n = NameA(variant) THEN sa
                      ELSE IF n = NameB(variant) THEN sb
                      ELSE IF n \in Range(NameList(variant))
                           THEN [exists |-> TRUE, commits |-> 1]
                      ELSE NoGithubRepo]
    /\ \E k \in [{n \in Range(NameList(variant)) : ~startswith(n, ASSET_PREFIX)} -> DestKinds] :
          /\ \A n \in DOMAIN k :
                k[n] = "ahead" => (PassesFilter(variant, n) /\ github[n].commits > 0)
          /\ ado = [n \in AllNames |->
                      IF n \in DOMAIN k THEN AdoRepoOf(k[n], n, github[n]) ELSE NoAdoRepo]
    /\ ado0 = ado

\* The first run of main on a machine: no scratch path exists.
Init ==
    /\ InitPlatforms
    /\ scratch = [n \in AllNames |-> "absent"]
    /\ MainAtStart

(* ------------------------------------------------------------------ *)
(* main: enumeration                                                    *)
(* ------------------------------------------------------------------ *)

\* g.get_user().get_repos(): the account's repositories, in list order.
get_repos(v, gh) == SelectSeq(NameList(v), LAMBDA n : gh[n].exists)

\* The list comprehension of main that keeps the selected repositories.
FilterRepos(v, repos) == SelectSeq(repos, LAMBDA n : PassesFilter(v, n))

\* Mutant of list_ado_repositories: a listing that misses every repository.
list_ado_repositories_none(a) == {}

\* list_ado_repositories: the names of the project's repositories.
list_ado_repositories(a) == {n \in AllNames : a[n].exists}

\* Mutant of NewRepos: the comprehension without its condition.
NewRepos_unconditional(src, dst) == src

\* Mutant of NewRepos: the membership test without its "not".
NewRepos_listed(src, dst) == SelectSeq(src, LAMBDA n : n \in dst)

\* new_repos = [repo for repo in source_repos if repo.name not in destination_repos]
NewRepos(src, dst) == SelectSeq(src, LAMBDA n : n \notin dst)

\* Mutant of ExistingRepos: the comprehension without its condition, so
\* that a repository created in this run is synchronized as well.
ExistingRepos_all(src, dst) == src

\* existing_repos = [repo for repo in source_repos if repo.name in destination_repos]
ExistingRepos(src, dst) == SelectSeq(src, LAMBDA n : n \in dst)

\* main: list the source account and filter it; a failing API call raises
\* out of main.
GetSourceRepos ==
    /\ pc = "start"
    /\ \/ /\ source_repos' = FilterRepos(variant, get_repos(variant, github))
          /\ pc' = "list_destination"
          /\ UNCHANGED anyFailure
       \/ /\ pc' = "list_failed"
          /\ anyFailure' = TRUE
          /\ UNCHANGED source_repos
    /\ UNCHANGED <<variant, github, ado, ado0, scratch, run, destination_repos,
                   new_repos, existing_repos, idx, create, xfer, collected,
                   createReqs, pushes, dispatched, mirrored>>

\* main: list the destination project and compute new_repos.
ListDestination ==
    /\ pc = "list_destination"
    /\ \/ /\ destination_repos' = list_ado_repositories(ado)
          /\ new_repos' = NewRepos(source_repos, destination_repos')
          /\ pc' = "new_phase"
          /\ UNCHANGED anyFailure
       \/ /\ pc' = "list_failed"
          /\ anyFailure' = TRUE
          /\ UNCHANGED <<destination_repos, new_repos>>
    /\ UNCHANGED <<variant, github, ado, ado0, scratch, run, source_repos,
                   existing_repos, idx, create, xfer, collected, createReqs, pushes,
                   dispatched, mirrored>>

(* ------------------------------------------------------------------ *)
(* create_ado_repository                                                *)
(* ------------------------------------------------------------------ *)

mainVars == <<pc, run, source_repos, destination_repos, new_repos, existing_repos, idx>>

envVars == <<variant, github, ado0>>

\* The name create_ado_repository sends: jun2 and jun15 rewrite a leading
\* period, may25 and may26 send the name as given.
CreateName(v, n) == IF v \in {"jun2", "jun15"} THEN ReplaceLeadingPeriod(n) ELSE n

\* What a failed create request does to its caller: jun2 and jun15 catch
\* CalledProcessError and log it; may25 (raise_for_status) and may26
\* (check=True) let it propagate.
CreateFailure(v) == IF v \in {"jun2", "jun15"} THEN "failed" ELSE "raised"

\* The repository main's sequential loop is at, if any.
Current ==
    IF pc = "new_loop" /\ idx <= Len(new_repos) THEN {new_repos[idx]}
    ELSE IF pc = "existing_loop" /\ idx <= Len(existing_repos) THEN {existing_repos[idx]}
    ELSE {}

\* create_ado_repository(org, project, n): as a pool task (may25, may26)
\* or called from main's loop (jun2, jun15).  The platform refuses a name
\* it already holds.
CreateAdoRepository(n) ==
    /\ \/ create[n] = "queued"
       \/ /\ ~UsesThreadPool(variant)
          /\ pc = "new_loop"
          /\ n \in Current
          /\ create[n] = "none"
    /\ createReqs' = createReqs \cup {[src |-> n, dst |-> CreateName(variant, n)]}
    /\ \/ /\ ~ado[CreateName(variant, n)].exists
          /\ ado' = [ado EXCEPT ![CreateName(variant, n)] = [exists |-> TRUE, refs |-> NoRefs]]
          /\ create' = [create EXCEPT ![n] = "ok"]
          /\ UNCHANGED anyFailure
       \/ /\ create' = [create EXCEPT ![n] = CreateFailure(variant)]
          /\ anyFailure' = TRUE
          /\ UNCHANGED ado
    /\ collected' = IF UsesThreadPool(variant) THEN collected
                    ELSE collected \cup {<<"create", n>>}
    /\ UNCHANGED mirrored
    /\ UNCHANGED <<envVars, mainVars, dispatched, scratch, xfer, pushes>>

(* ------------------------------------------------------------------ *)
(* The transfer functions: clone_and_push, synchronize_and_push         *)
(* ------------------------------------------------------------------ *)

\* The external steps of a transfer function, in the order of its body.
Steps(v, fn) ==
    CASE v = "may25" /\ fn = "clone_and_push" ->
            <<"get_default_branch", "clone", "rewrite", "create_remote", "push", "cleanup">>
      [] v = "may25" /\ fn = "synchronize_and_push" ->
            <<"get_default_branch", "clone", "create_remote", "pull", "push", "cleanup">>
      [] v = "may26" ->
            <<"get_default_branch", "clone", "rewrite", "create_remote", "push", "cleanup">>
      [] v = "jun2" /\ fn = "clone_and_push" ->
            <<"get_default_branch", "clone", "reset", "create_remote", "push", "cleanup">>
      [] v = "jun2" /\ fn = "synchronize_and_push" ->
            <<"get_default_branch", "clone", "lfs_pull", "rewrite", "create_remote",
              "push", "cleanup">>
      [] v = "jun15" ->
            <<"get_default_branch", "clone", "fetch", "create_remote", "push", "cleanup">>

\* The body is wrapped in try/except Exception (not in may25).
Catches(v) == v # "may25"

\* "if default_branch is None: return (repo_name, None)"
SkipsEmpty(v, fn) == fn = "clone_and_push" /\ v \in {"may26", "jun2"}

\* Mutant of PushName: one destination repository in every push URL.
PushName_shared(v, fn, n) == NameA(v)

\* The name in the destination URL: only jun2's synchronize_and_push
\* rewrites a leading period.
PushName(v, fn, n) ==
    IF v = "jun2" /\ fn = "synchronize_and_push" THEN ReplaceLeadingPeriod(n) ELSE n

\* Mutant of ScratchName: one scratch path for every repository.
ScratchName_shared(v, fn, n) == NameA(v)

\* The name that keys the scratch path (jun2's synchronize_and_push builds
\* it after the rewrite).
ScratchName(v, fn, n) ==
    IF v = "jun2" /\ fn = "synchronize_and_push" THEN ReplaceLeadingPeriod(n) ELSE n

\* The guard of the rmtree before the clone: clone_and_push of may25,
\* may26 and jun15 removes a path that exists and is not empty; the others
\* remove any path that exists.
RemovesScratch(v, fn, dir) ==
    IF fn = "clone_and_push" /\ v \in {"may25", "may26", "jun15"}
    THEN dir = "full"
    ELSE dir # "absent"

\* The files of the synthetic commit: may26's clone_and_push adds glob("*")
\* and then the untracked files whose name starts with a period; the others
\* run git add -A.
AddedFiles(v, fn, files) ==
    IF v = "may26" /\ fn = "clone_and_push"
    THEN LET globbed == {f \in files : ~IsHidden(f)}
             hidden_files == {f \in files \ globbed : IsHidden(f)}
         IN  globbed \cup hidden_files
    ELSE files

CommitMessage(v, fn) ==
    IF v = "may26" /\ fn = "clone_and_push" THEN "Initial commit" ELSE "Update from GitHub"

\* Mutant of SquashCommit: the commit is made without removing .git first,
\* on top of the cloned history.
SquashCommit_keepsHistory(v, fn, n, head) ==
    [kind |-> "synthetic", repo |-> n, files |-> FilesOf(head),
     depth |-> DepthOf(head) + 1,
     message |-> "Update from GitHub"]

\* rmtree(.git), Repo.init, add, commit: one parentless commit of the
\* working tree.
SquashCommit(v, fn, n, head) ==
    [kind |-> "synthetic", repo |-> n, files |-> AddedFiles(v, fn, FilesOf(head)),
     depth |-> 1, message |-> CommitMessage(v, fn)]

\* Transfer n is about to run step s.
At(n, s) ==
    /\ xfer[n].fn # "none"
    /\ xfer[n].result = "none"
    /\ Steps(variant, xfer[n].fn)[xfer[n].at] = s

\* The call after step s succeeded; after the last step it returns
\* (repo_name, None).
Advance(t, s) ==
    LET u == [t EXCEPT !.ran = @ \cup {s}, !.at = @ + 1]
    IN  IF u.at > Len(Steps(variant, t.fn)) THEN [u EXCEPT !.result = "ok"] ELSE u

\* The call after step s failed: (repo_name, e) is returned, or the
\* exception leaves the function.
Failed(t, s) ==
    [t EXCEPT !.ran = @ \cup {s}, !.failedAt = s,
              !.result = IF Catches(variant) THEN "error" ELSE "raised"]

\* get_default_branch(repo_name), the skip of an empty repository, and the
\* URLs and the scratch path built from repo_name.
GetDefaultBranch(n) ==
    /\ At(n, "get_default_branch")
    /\ \/ /\ github[n].exists
          /\ LET t == [xfer[n] EXCEPT
                         !.branch = default_branch(github[n]),
                         !.dst = PushName(variant, xfer[n].fn, n),
                         !.path = ScratchName(variant, xfer[n].fn, n)]
             IN  xfer' = [xfer EXCEPT ![n] =
                            IF t.branch = None /\ SkipsEmpty(variant, t.fn)
                            THEN [t EXCEPT !.ran = @ \cup {"get_default_branch"},
                                           !.result = "ok"]
                            ELSE Advance(t, "get_default_branch")]
          /\ UNCHANGED anyFailure
       \/ /\ xfer' = [xfer EXCEPT ![n] = Failed(@, "get_default_branch")]
          /\ anyFailure' = TRUE
    /\ UNCHANGED mirrored
    /\ UNCHANGED <<envVars, mainVars, dispatched, ado, scratch, create, collected, createReqs,
                   pushes>>

\* The scratch path after the delete-if-exists before the clone.
PreparedScratch(v, fn, dir) == IF RemovesScratch(v, fn, dir) THEN "absent" ELSE dir

\* rmtree of a left-over scratch path, then the clone: git refuses a
\* destination path that exists and is not empty.
Clone(n) ==
    /\ At(n, "clone")
    /\ LET t == xfer[n]
           dir == PreparedScratch(variant, t.fn, scratch[t.path])
       IN  \/ /\ github[n].exists
              /\ dir # "full"
              /\ scratch' = [scratch EXCEPT ![t.path] = "full"]
              /\ xfer' = [xfer EXCEPT ![n] =
                            Advance([t EXCEPT !.clonedInto = dir,
                                              !.head =
                                       IF github[n].commits > 0
                                       THEN SourceHead(n, github[n].commits)
                                       ELSE NoCommit], "clone")]
              /\ UNCHANGED anyFailure
           \/ /\ scratch' = [scratch EXCEPT ![t.path] = dir]
              /\ xfer' = [xfer EXCEPT ![n] = Failed([t EXCEPT !.clonedInto = dir], "clone")]
              /\ anyFailure' = TRUE
    /\ UNCHANGED mirrored
    /\ UNCHANGED <<envVars, mainVars, dispatched, ado, create, collected, createReqs, pushes>>

\* Squash: remove the history and commit the working tree once.
Rewrite(n) ==
    /\ At(n, "rewrite")
    /\ LET t == xfer[n]
       IN  \/ /\ xfer' = [xfer EXCEPT ![n] =
                            Advance([t EXCEPT !.head =
                                       SquashCommit(variant, t.fn, n, t.head)], "rewrite")]
              /\ UNCHANGED anyFailure
           \/ /\ xfer' = [xfer EXCEPT ![n] = Failed(t, "rewrite")]
              /\ anyFailure' = TRUE
    /\ UNCHANGED mirrored
    /\ UNCHANGED <<envVars, mainVars, dispatched, ado, scratch, create, collected, createReqs,
                   pushes>>

\* jun2 clone_and_push: git reset --hard <default_branch>, which leaves
\* HEAD where the clone put it.
Reset(n) ==
    /\ At(n, "reset")
    /\ \/ xfer' = [xfer EXCEPT ![n] = Advance(@, "reset")] /\ UNCHANGED anyFailure
       \/ xfer' = [xfer EXCEPT ![n] = Failed(@, "reset")] /\ anyFailure' = TRUE
    /\ UNCHANGED mirrored
    /\ UNCHANGED <<envVars, mainVars, dispatched, ado, scratch, create, collected, createReqs,
                   pushes>>

\* jun2 synchronize_and_push: git lfs pull.
LfsPull(n) ==
    /\ At(n, "lfs_pull")
    /\ \/ xfer' = [xfer EXCEPT ![n] = Advance(@, "lfs_pull")] /\ UNCHANGED anyFailure
       \/ xfer' = [xfer EXCEPT ![n] = Failed(@, "lfs_pull")] /\ anyFailure' = TRUE
    /\ UNCHANGED mirrored
    /\ UNCHANGED <<envVars, mainVars, dispatched, ado, scratch, create, collected, createReqs,
                   pushes>>

\* create_remote("destination", url) / git remote add.
CreateRemote(n) ==
    /\ At(n, "create_remote")
    /\ \/ xfer' = [xfer EXCEPT ![n] = Advance(@, "create_remote")] /\ UNCHANGED anyFailure
       \/ xfer' = [xfer EXCEPT ![n] = Failed(@, "create_remote")] /\ anyFailure' = TRUE
    /\ UNCHANGED mirrored
    /\ UNCHANGED <<envVars, mainVars, dispatched, ado, scratch, create, collected, createReqs,
                   pushes>>

\* jun15: chdir, git fetch origin <default_branch>, git checkout -b.  With
\* default_branch None the argument list holds None and subprocess.run
\* raises TypeError.
Fetch(n) ==
    /\ At(n, "fetch")
    /\ \/ /\ xfer[n].branch # None
          /\ xfer' = [xfer EXCEPT ![n] = Advance(@, "fetch")]
          /\ UNCHANGED anyFailure
       \/ /\ xfer' = [xfer EXCEPT ![n] = Failed(@, "fetch")]
          /\ anyFailure' = TRUE
    /\ UNCHANGED mirrored
    /\ UNCHANGED <<envVars, mainVars, dispatched, ado, scratch, create, collected, createReqs,
                   pushes>>

\* The commit the destination holds on a branch.
RemoteRef(a, dst, branch) == IF a[dst].exists THEN a[dst].refs[branch] ELSE NoCommit

\* HEAD after a successful git pull of remote into head: nothing to do or
\* a fast-forward.
PullResult(head, remote) == remote

\* git pull merges only histories it can relate.
CanPull(head, remote) ==
    /\ head # NoCommit
    /\ remote # NoCommit
    /\ (remote = head \/ Descends(remote, head))

\* may25 synchronize_and_push: pull the destination branch inside its own
\* try/except; a failure is logged and the function goes on.
Pull(n) ==
    /\ At(n, "pull")
    /\ LET t == xfer[n]
           remote == RemoteRef(ado, t.dst, t.branch)
       IN  \/ /\ CanPull(t.head, remote)
              /\ xfer' = [xfer EXCEPT ![n] =
                            Advance([t EXCEPT !.head = PullResult(t.head, remote)], "pull")]
              /\ UNCHANGED anyFailure
           \/ /\ xfer' = [xfer EXCEPT ![n] =
                            Advance([t EXCEPT !.ran = @ \cup {"pull_failed"}], "pull")]
              /\ anyFailure' = TRUE
    /\ UNCHANGED mirrored
    /\ UNCHANGED <<envVars, mainVars, dispatched, ado, scratch, create, collected, createReqs,
                   pushes>>

\* The destination after a forced update of a branch.
ForcePush(a, dst, branch, head) == [a EXCEPT ![dst].refs[branch] = head]

\* The push is made with GitPython's Remote.push (remotes.destination.push):
\* a ref the destination rejects is reported in the flags of the returned
\* PushInfo, which the code does not read, and nothing is raised.
\* repo.git.push and subprocess.run(..., check=True) raise on any failure.
PushReturnsFlags(v, fn) ==
    \/ v = "may25"
    \/ v \in {"may26", "jun2"} /\ fn = "synchronize_and_push"

\* push --force HEAD:refs/heads/<default_branch>: needs the destination
\* repository and a commit to push.  The push updates the branch, or fails
\* and raises, or (Remote.push) is rejected by the destination without an
\* exception.
Push(n) ==
    /\ At(n, "push")
    /\ LET t == xfer[n]
       IN  \/ /\ ado[t.dst].exists
              /\ t.head # NoCommit
              /\ ado' = ForcePush(ado, t.dst, t.branch, t.head)
              /\ pushes' = pushes \cup {[fn |-> t.fn, src |-> n, dst |-> t.dst, ok |-> TRUE]}
              /\ xfer' = [xfer EXCEPT ![n] = Advance(t, "push")]
              /\ UNCHANGED anyFailure
           \/ /\ pushes' = pushes \cup {[fn |-> t.fn, src |-> n, dst |-> t.dst, ok |-> FALSE]}
              /\ xfer' = [xfer EXCEPT ![n] = Failed(t, "push")]
              /\ anyFailure' = TRUE
              /\ UNCHANGED ado
           \/ /\ PushReturnsFlags(variant, t.fn)
              /\ ado[t.dst].exists
              /\ t.head # NoCommit
              /\ pushes' = pushes \cup {[fn |-> t.fn, src |-> n, dst |-> t.dst, ok |-> FALSE]}
              /\ xfer' = [xfer EXCEPT ![n] =
                            Advance([t EXCEPT !.ran = @ \cup {"push_rejected"}], "push")]
              /\ anyFailure' = TRUE
              /\ UNCHANGED ado
    /\ UNCHANGED mirrored
    /\ UNCHANGED <<envVars, mainVars, dispatched, scratch, create, collected, createReqs>>

\* What an rmtree that raised leaves of a directory with content: rmtree
\* removes the entries first and the directory itself last, so the failure
\* leaves content or the bare directory.
RmtreeLeftovers == {"full", "empty"}

\* shutil.rmtree(repo_path) on the success path.
CleanUp(n) ==
    /\ At(n, "cleanup")
    /\ \/ /\ scratch' = [scratch EXCEPT ![xfer[n].path] = "absent"]
          /\ xfer' = [xfer EXCEPT ![n] = Advance(@, "cleanup")]
          /\ UNCHANGED anyFailure
       \/ /\ \E left \in RmtreeLeftovers :
                scratch' = [scratch EXCEPT ![xfer[n].path] = left]
          /\ xfer' = [xfer EXCEPT ![n] = Failed(@, "cleanup")]
          /\ anyFailure' = TRUE
    /\ UNCHANGED mirrored
    /\ UNCHANGED <<envVars, mainVars, dispatched, ado, create, collected, createReqs, pushes>>

(* ------------------------------------------------------------------ *)
(* main: dispatch                                                       *)
(* ------------------------------------------------------------------ *)

\* A transfer call entering its body.
StartXfer(fn) == [NoXfer EXCEPT !.fn = fn, !.at = 1]

Done(n) == xfer[n].result # "none"

CreateDone(n) == create[n] \in {"ok", "failed", "raised"}

\* The function main uses for an existing repository: jun15 has no
\* synchronize_and_push and calls clone_and_push through
\* synchronize_repository.
SyncFunction(v) == IF v = "jun15" THEN "clone_and_push" ELSE "synchronize_and_push"

\* The futures of the new-repository pool block, in submission order: the
\* create tasks, then the clone_and_push tasks.
NewFutures(repos) ==
    [i \in 1..(2 * Len(repos)) |->
        IF i <= Len(repos) THEN <<"create", repos[i]>>
        ELSE <<"transfer", repos[i - Len(repos)]>>]

ExistingFutures(repos) == [i \in 1..Len(repos) |-> <<"transfer", repos[i]>>]

\* future.result() re-raises the exception of its task.
Raises(f) ==
    IF f[1] = "create" THEN create[f[2]] = "raised" ELSE xfer[f[2]].result = "raised"

\* The futures main's loop gets a result from: may25 wraps future.result()
\* in try/except and goes through all of them; may26 does not, and its
\* loop ends at the first future that raises.
CollectedFrom(v, futures) ==
    IF v = "may25" \/ ~\E i \in DOMAIN futures : Raises(futures[i])
    THEN Range(futures)
    ELSE LET first == CHOOSE i \in DOMAIN futures :
                         /\ Raises(futures[i])
                         /\ \A j \in DOMAIN futures : Raises(futures[j]) => i <= j
         IN  {futures[j] : j \in 1..(first - 1)}

\* An exception leaves the pool block of main.
LoopRaises(v, futures) == v # "may25" /\ \E i \in DOMAIN futures : Raises(futures[i])

\* may25, may26: submit a create task and a clone_and_push task for every
\* new repository to one ThreadPoolExecutor.
SubmitNew ==
    /\ pc = "new_phase"
    /\ UsesThreadPool(variant)
    /\ create' = [n \in AllNames |-> IF n \in Range(new_repos) THEN "queued" ELSE create[n]]
    /\ xfer' = [n \in AllNames |->
                  IF n \in Range(new_repos) THEN StartXfer("clone_and_push") ELSE xfer[n]]
    /\ dispatched' = [n \in AllNames |->
                        IF n \in Range(new_repos) THEN dispatched[n] + 1 ELSE dispatched[n]]
    /\ pc' = "new_join"
    /\ UNCHANGED mirrored
    /\ UNCHANGED <<envVars, ado, scratch, run, source_repos, destination_repos, new_repos,
                   existing_repos, idx, collected, createReqs, pushes, anyFailure>>

\* Mutant of PoolIdle: the pool block is left once its transfer tasks have
\* finished, whatever its create tasks do.
PoolIdle_transfersOnly(repos) == \A n \in Range(repos) : xfer[n].result # "none"

\* Mutant of PoolIdle: the pool block is left without waiting for its tasks.
PoolIdle_noWait(repos) == TRUE

\* The tasks of the pool block have all finished: the with statement
\* (shutdown(wait=True)) lets main go on only then.
PoolIdle(repos) == \A n \in Range(repos) : Done(n) /\ (create[n] = "none" \/ CreateDone(n))

\* may25, may26: the result loop and the end of the first with block.
JoinNew ==
    /\ pc = "new_join"
    /\ PoolIdle(new_repos)
    /\ collected' = collected \cup CollectedFrom(variant, NewFutures(new_repos))
    /\ pc' = IF LoopRaises(variant, NewFutures(new_repos)) THEN "raised" ELSE "existing_phase"
    /\ UNCHANGED mirrored
    /\ UNCHANGED <<envVars, dispatched, ado, scratch, run, source_repos, destination_repos,
                   new_repos,
                   existing_repos, idx, create, xfer, createReqs, pushes, anyFailure>>

\* jun2, jun15: enter the loop over new_repos.
EnterNewLoop ==
    /\ pc = "new_phase"
    /\ ~UsesThreadPool(variant)
    /\ idx' = 1
    /\ pc' = "new_loop"
    /\ UNCHANGED mirrored
    /\ UNCHANGED <<envVars, dispatched, ado, scratch, run, source_repos, destination_repos,
                   new_repos,
                   existing_repos, create, xfer, collected, createReqs, pushes, anyFailure>>

\* jun2, jun15: main calls the transfer function for the repository of the
\* current iteration (in the first loop after create_ado_repository returned).
CallTransfer(n) ==
    /\ ~UsesThreadPool(variant)
    /\ n \in Current
    /\ xfer[n].fn = "none"
    /\ pc = "new_loop" => CreateDone(n)
    /\ xfer' = [xfer EXCEPT ![n] =
                  StartXfer(IF pc = "new_loop" THEN "clone_and_push"
                            ELSE SyncFunction(variant))]
    /\ dispatched' = [dispatched EXCEPT ![n] = @ + 1]
    /\ UNCHANGED mirrored
    /\ UNCHANGED <<envVars, mainVars, ado, scratch, create, collected, createReqs,
                   pushes, anyFailure>>

\* jun2, jun15: the transfer returned its pair; main prints the error, if
\* any, and goes to the next repository.
ReturnTransfer(n) ==
    /\ ~UsesThreadPool(variant)
    /\ n \in Current
    /\ Done(n)
    /\ collected' = collected \cup {<<"transfer", n>>}
    /\ idx' = idx + 1
    /\ UNCHANGED mirrored
    /\ UNCHANGED <<envVars, dispatched, ado, scratch, pc, run, source_repos, destination_repos,
                   new_repos, existing_repos, create, xfer, createReqs, pushes, anyFailure>>

\* The first phase is over: compute existing_repos and dispatch its
\* members (to a second pool in may25 and may26, to a loop in jun2 and jun15).
StartExisting ==
    /\ \/ pc = "existing_phase"
       \/ pc = "new_loop" /\ idx > Len(new_repos)
    /\ existing_repos' = ExistingRepos(source_repos, destination_repos)
    /\ IF UsesThreadPool(variant)
       THEN /\ xfer' = [n \in AllNames |->
                          IF n \in Range(existing_repos')
                          THEN StartXfer(SyncFunction(variant)) ELSE xfer[n]]
            /\ dispatched' = [n \in AllNames |->
                                IF n \in Range(existing_repos')
                                THEN dispatched[n] + 1 ELSE dispatched[n]]
            /\ pc' = "existing_join"
            /\ UNCHANGED idx
       ELSE /\ idx' = 1
            /\ pc' = "existing_loop"
            /\ UNCHANGED <<xfer, dispatched>>
    /\ UNCHANGED mirrored
    /\ UNCHANGED <<envVars, ado, scratch, run, source_repos, destination_repos, new_repos,
                   create, collected, createReqs, pushes, anyFailure>>

\* may25, may26: the result loop and the end of the second with block.
JoinExisting ==
    /\ pc = "existing_join"
    /\ PoolIdle(existing_repos)
    /\ collected' = collected \cup CollectedFrom(variant, ExistingFutures(existing_repos))
    /\ pc' = IF LoopRaises(variant, ExistingFutures(existing_repos)) THEN "raised" ELSE "report"
    /\ UNCHANGED mirrored
    /\ UNCHANGED <<envVars, dispatched, ado, scratch, run, source_repos, destination_repos,
                   new_repos,
                   existing_repos, idx, create, xfer, createReqs, pushes, anyFailure>>

\* The duration report at the end of main.
Report ==
    /\ \/ pc = "report"
       \/ pc = "existing_loop" /\ idx > Len(existing_repos)
    /\ pc' = "done"
    /\ UNCHANGED mirrored
    /\ UNCHANGED <<envVars, dispatched, ado, scratch, run, source_repos, destination_repos,
                   new_repos,
                   existing_repos, idx, create, xfer, collected, createReqs, pushes,
                   anyFailure>>

\* A step of a call in flight.
TaskStep(n) ==
    \/ CreateAdoRepository(n)
    \/ GetDefaultBranch(n)
    \/ Clone(n)
    \/ Rewrite(n)
    \/ Reset(n)
    \/ LfsPull(n)
    \/ Fetch(n)
    \/ CreateRemote(n)
    \/ Pull(n)
    \/ Push(n)
    \/ CleanUp(n)

MainStep ==
    \/ GetSourceRepos
    \/ ListDestination
    \/ SubmitNew
    \/ JoinNew
    \/ EnterNewLoop
    \/ StartExisting
    \/ JoinExisting
    \/ Report

Next ==
    \/ MainStep
    \/ \E n \in AllNames : CallTransfer(n) \/ ReturnTransfer(n) \/ TaskStep(n)

Spec == Init /\ [][Next]_vars

(* ------------------------------------------------------------------ *)
(* Properties                                                           *)
(* ------------------------------------------------------------------ *)

\* main has computed existing_repos.
ExistingComputed == pc \in {"existing_join", "existing_loop", "report", "done"}

\* The source repositories main's filter selects.
Selected == {n \in AllNames : github[n].exists /\ PassesFilter(variant, n)}

NoDuplicates(s) == \A i, j \in DOMAIN s : s[i] = s[j] => i = j

\* C1: once main has computed both lists, new_repos and existing_repos are
\* disjoint and together hold exactly the source repositories that pass the
\* prefix filter, each once.
C1_Partition ==
    ExistingComputed =>
        /\ Range(new_repos) \cap Range(existing_repos) = {}
        /\ Range(new_repos) \cup Range(existing_repos) = Selected
        /\ NoDuplicates(new_repos)
        /\ NoDuplicates(existing_repos)

\* C1 witness: a finished run with a new repository, an existing one and a
\* source repository that the filter rejected.
C1_Witness ==
    /\ pc = "done"
    /\ new_repos # <<>>
    /\ existing_repos # <<>>
    /\ \E n \in AllNames : github[n].exists /\ n \notin Selected

\* C2: whenever the clone_and_push of a new repository has tried its force
\* push, the create call for that repository has completed.
C2_CreateBeforePush ==
    \A n \in Range(new_repos) :
        "push" \in xfer[n].ran => CreateDone(n)

\* C3: no transfer call lets an exception out, and in a finished run every
\* selected repository's transfer has run.
C3_TransfersNeverRaise ==
    /\ \A n \in AllNames : xfer[n].result # "raised"
    /\ pc = "done" =>
          \A n \in Range(new_repos) \cup Range(existing_repos) : Done(n)

\* C4: once main dispatches, it never ends by an exception; at the report
\* every dispatched call's outcome was collected and every existing
\* repository was dispatched.
C4_BatchCompletes ==
    /\ pc # "raised"
    /\ pc = "done" =>
          /\ \A n \in Range(new_repos) :
                <<"create", n>> \in collected /\ <<"transfer", n>> \in collected
          /\ \A n \in Range(existing_repos) : <<"transfer", n>> \in collected
          /\ Range(existing_repos) = Selected \cap destination_repos

\* C6: a name with the restricted prefix is in neither list, no call is
\* made for it, no create request or push names it, and the destination
\* holds for it what it held at the start.
C6_RestrictedUntouched ==
    \A n \in AllNames :
        startswith(n, RESTRICTED_PREFIX) =>
            /\ n \notin Range(source_repos)
            /\ n \notin Range(new_repos) \cup Range(existing_repos)
            /\ create[n] = "none"
            /\ xfer[n].fn = "none"
            /\ \A c \in createReqs : c.src # n /\ c.dst # n
            /\ \A p \in pushes : p.src # n /\ p.dst # n
            /\ ado[n] = ado0[n]

\* C6 witness: a finished run over a source account that lists a restricted
\* repository the destination also holds, in which another repository was
\* created and another was pushed.
C6_Witness ==
    /\ pc = "done"
    /\ \E n \in AllNames :
          startswith(n, RESTRICTED_PREFIX) /\ github[n].exists /\ ado0[n].exists
    /\ \E c \in createReqs : ado[c.dst].exists /\ ~ado0[c.dst].exists
    /\ \E p \in pushes : p.ok

\* C7: a source repository with no commits leaves the destination as it
\* was: nothing is created for it and nothing is pushed for it.
C7_EmptyCausesNoMutation ==
    \A n \in AllNames :
        (github[n].exists /\ github[n].commits = 0) =>
            /\ ado[n] = ado0[n]
            /\ \A p \in pushes : p.src = n => ~p.ok

\* C8: a transfer whose default-branch lookup yields None runs no clone,
\* remote registration or push, and ends with (name, None).
C8_EmptySkippedBeforeClone ==
    \A n \in AllNames :
        xfer[n].branch = None =>
            /\ xfer[n].ran \cap {"clone", "create_remote", "push"} = {}
            /\ xfer[n].result \in {"none", "ok"}

\* The transfer of n squashed and its force push succeeded.
SquashPushed(n) ==
    /\ "rewrite" \in xfer[n].ran
    /\ "push" \in xfer[n].ran
    /\ "push_rejected" \notin xfer[n].ran
    /\ xfer[n].failedAt \notin {"rewrite", "push"}

\* C10: after a successful squash-mode push of a source repository with at
\* least one commit, the destination's default branch is one parentless
\* synthetic commit, whatever the branch held before.
C10_SquashDepthOne ==
    \A n \in AllNames :
        (SquashPushed(n) /\ github[n].commits >= 1) =>
            /\ ado[xfer[n].dst].refs[xfer[n].branch].kind = "synthetic"
            /\ ado[xfer[n].dst].refs[xfer[n].branch].depth = 1

\* C10 witness: a squash push of a source with several commits onto a
\* destination branch that held several commits.
C10_Witness ==
    \E n \in AllNames :
        /\ SquashPushed(n)
        /\ github[n].commits >= 2
        /\ DepthOf(ado0[n].refs["main"]) >= 2
        /\ DepthOf(ado[n].refs["main"]) = 1

(* ------------------------------------------------------------------ *)
(* The entry points called directly                                     *)
(* ------------------------------------------------------------------ *)

\* The names the entry points are called with: one of the variant's list
\* and the two names the leading-period rewrite relates.
CallNames(v) == {NameA(v)} \cup DotNames

\* The transfer functions a variant defines.
TransferFunctions(v) ==
    IF v = "jun15" THEN {"clone_and_push"} ELSE {"clone_and_push", "synchronize_and_push"}

\* No call is in flight.
Idle == \A n \in AllNames : create[n] # "queued" /\ (xfer[n].fn = "none" \/ Done(n))

\* The module's functions called one at a time, outside main, on one
\* repository named by any of CallNames, empty or holding one commit, the
\* destination empty.
InitCalls ==
    /\ variant \in Variants
    /\ \E callee \in CallNames(variant), c \in 0..1 :
          github = [n \in AllNames |->
                      IF n = callee THEN [exists |-> TRUE, commits |-> c] ELSE NoGithubRepo]
    /\ ado = [n \in AllNames |-> NoAdoRepo]
    /\ ado0 = ado
    /\ scratch = [n \in AllNames |-> "absent"]
    /\ MainAtStart

\* A caller calls create_ado_repository(org, project, n).
DirectCreate(n) ==
    /\ pc = "start"
    /\ Idle
    /\ github[n].exists
    /\ create[n] = "none"
    /\ create' = [create EXCEPT ![n] = "queued"]
    /\ UNCHANGED mirrored
    /\ UNCHANGED <<envVars, mainVars, dispatched, ado, scratch, xfer, collected, createReqs,
                   pushes,
                   anyFailure>>

\* A caller calls clone_and_push(n) or synchronize_and_push(n), each at
\* most once for a name.
DirectTransfer(n) ==
    /\ pc = "start"
    /\ Idle
    /\ github[n].exists
    /\ \E fn \in TransferFunctions(variant) :
          /\ <<fn, n>> \notin collected
          /\ xfer' = [xfer EXCEPT ![n] = StartXfer(fn)]
          /\ collected' = collected \cup {<<fn, n>>}
    /\ UNCHANGED mirrored
    /\ UNCHANGED <<envVars, mainVars, dispatched, ado, scratch, create, createReqs, pushes,
                   anyFailure>>

NextCalls ==
    \E n \in AllNames : DirectCreate(n) \/ DirectTransfer(n) \/ TaskStep(n)

SpecCalls == InitCalls /\ [][NextCalls]_vars

\* C5: for a source name with a leading period, the create request and
\* every push made for it name one and the same destination repository.
C5_LeadingPeriodConsistent ==
    \A n \in AllNames :
        startswith(n, <<".">>) =>
            LET names == {c.dst : c \in {r \in createReqs : r.src = n}}
                           \cup {p.dst : p \in {r \in pushes : r.src = n}}
            IN  Cardinality(names) <= 1

(* ------------------------------------------------------------------ *)
(* Successive runs                                                      *)
(* ------------------------------------------------------------------ *)

\* Number of runs of main in a row.
MaxRuns == 2

\* Successive runs over an account with one selectable repository.
InitTwice ==
    /\ Init
    /\ ~github[NameB(variant)].exists
    /\ ~ado[NameB(variant)].exists

\* main is started again: its locals are fresh, the platforms and the
\* filesystem are as the last run left them.
Rerun ==
    /\ pc \in {"done", "raised", "list_failed"}
    /\ run < MaxRuns
    /\ run' = run + 1
    /\ pc' = "start"
    /\ source_repos' = <<>>
    /\ destination_repos' = {}
    /\ new_repos' = <<>>
    /\ existing_repos' = <<>>
    /\ idx' = 0
    /\ create' = NoCalls
    /\ xfer' = NoXfers
    /\ collected' = {}
    /\ createReqs' = {}
    /\ pushes' = {}
    /\ dispatched' = [n \in AllNames |-> 0]
    /\ mirrored' = {n \in Range(new_repos) :
                      /\ create[n] = "ok"
                      /\ xfer[n].result = "ok"
                      /\ "push" \in xfer[n].ran
                      /\ "push_rejected" \notin xfer[n].ran}
    /\ UNCHANGED <<envVars, ado, scratch, anyFailure>>

NextTwice == Next \/ Rerun

SpecTwice == InitTwice /\ [][NextTwice]_vars

\* The content of the default branch of source repository n.
SourceTree(n) == [repo |-> n, files |-> SourceFiles]

TreeOf(c) == [repo |-> c.repo, files |-> c.files]

\* The variant's transfer for an existing repository squashes.
SquashesExisting(v) == "rewrite" \in Range(Steps(v, SyncFunction(v)))

\* C9: after a second run, with no call having failed in either run, every
\* selected repository with commits has on the destination's default branch
\* the content of the source's default branch (in squash mode as a single
\* commit).
C9_SecondRunMirrorsSource ==
    (run = 2 /\ pc = "done" /\ ~anyFailure) =>
        \A n \in Selected :
            github[n].commits >= 1 =>
                /\ ado[n].exists
                /\ ado[n].refs["main"] # NoCommit
                /\ TreeOf(ado[n].refs["main"]) = SourceTree(n)
                /\ SquashesExisting(variant) => DepthOf(ado[n].refs["main"]) = 1

(* ------------------------------------------------------------------ *)
(* Properties of a transfer's result                                    *)
(* ------------------------------------------------------------------ *)

\* The transfer of n returned (name, None) after its force push updated
\* the destination.
PushedOk(n) ==
    /\ xfer[n].result = "ok"
    /\ "push" \in xfer[n].ran
    /\ "push_rejected" \notin xfer[n].ran

\* C11: after a transfer of a source repository with commits has pushed and
\* returned success, the destination's default branch holds exactly the
\* content of the source's default branch; nothing that was on the
\* destination (pulled or not) is part of it.
C11_DestinationHoldsSource ==
    \A n \in AllNames :
        (PushedOk(n) /\ github[n].commits >= 1) =>
            /\ ado[xfer[n].dst].refs[xfer[n].branch] # NoCommit
            /\ TreeOf(ado[xfer[n].dst].refs[xfer[n].branch]) = SourceTree(n)

\* C12: every create request of a run is sent for a member of new_repos,
\* and the name it sends (after the leading-period rewrite) is not in the
\* destination listing main took in that run.
C12_CreateOnlyUnlisted ==
    \A c \in createReqs :
        /\ c.src \in Range(new_repos)
        /\ c.dst = CreateName(variant, c.src)
        /\ c.dst \notin destination_repos

\* C12 witness: a create request was sent in a run whose listing held
\* another selected repository, for which none was sent.
C12_Witness ==
    /\ createReqs # {}
    /\ \E n \in Selected \cap destination_repos : \A c \in createReqs : c.src # n

(* ------------------------------------------------------------------ *)
(* A run over a scratch root that earlier runs have used                *)
(* ------------------------------------------------------------------ *)

\* What a scratch path can be on disk: missing, a directory with nothing
\* in it (an rmtree that failed at its last rmdir), a directory with a
\* working copy in it (a transfer that failed after its clone).  The
\* repository the path is keyed by may since have changed on either platform.
ScratchStates == {"absent", "empty", "full"}

\* A run of main over an account with one selectable repository whose
\* scratch path is in any of the states an earlier run can have left it in.
InitLeaked ==
    /\ InitPlatforms
    /\ github[NameA(variant)].exists
    /\ ~github[NameB(variant)].exists
    /\ ~ado[NameB(variant)].exists
    /\ \E dir \in ScratchStates :
          scratch = [n \in AllNames |-> IF n = NameA(variant) THEN dir ELSE "absent"]
    /\ MainAtStart

SpecLeaked == InitLeaked /\ [][Next]_vars

\* C13: once a transfer has returned (name, None), the scratch path of its
\* repository does not exist.
C13_SuccessLeavesNoScratch ==
    \A n \in AllNames :
        xfer[n].result = "ok" =>
            scratch[ScratchName(variant, xfer[n].fn, n)] = "absent"

\* C14: whenever a transfer has run its clone step, the scratch path did
\* not exist at that moment, whatever it was when the transfer started.
C14_ScratchDeletedBeforeClone ==
    \A n \in AllNames :
        "clone" \in xfer[n].ran => xfer[n].clonedInto = "absent"

(* ------------------------------------------------------------------ *)
(* Properties of the dispatch                                           *)
(* ------------------------------------------------------------------ *)

\* The transfer of n has been called (or submitted) and has not ended.
InFlight(n) == xfer[n].fn # "none" /\ xfer[n].result = "none"

C16_StopsAtFirstFailure ==
    [][\A n \in AllNames :
          /\ create[n] \in {"failed", "raised"} =>
                (xfer'[n].ran \cap {"clone", "push"}) \subseteq xfer[n].ran
          /\ xfer[n].failedAt # "none" => xfer'[n].ran \subseteq xfer[n].ran]_vars

\* C17: the transfer of every existing repository attempts a pull of the
\* destination branch before its force push, and a failed pull neither
\* ends the transfer nor keeps it from pushing.
C17_PullBeforePush ==
    \A n \in Range(existing_repos) :
        /\ "push" \in xfer[n].ran => "pull" \in xfer[n].ran
        /\ "pull_failed" \in xfer[n].ran =>
              /\ xfer[n].failedAt # "pull"
              /\ Done(n) => "push" \in xfer[n].ran

\* C18: nothing is created, dispatched or pushed before main has listed
\* the destination; a repository of new_repos is not in existing_repos;
\* and main calls the transfer functions at most once for a repository in
\* a run, and only for the selected ones.
C18_SingleEnumeration ==
    /\ pc \in {"start", "list_destination", "list_failed"} =>
          /\ createReqs = {}
          /\ pushes = {}
          /\ ado = ado0
          /\ \A n \in AllNames : create[n] = "none" /\ dispatched[n] = 0
    /\ \A n \in AllNames :
          /\ dispatched[n] <= 1
          /\ dispatched[n] = 1 => n \in Selected
          /\ (create[n] # "none" /\ ExistingComputed) => n \notin Range(existing_repos)

\* C18 witness: a finished run that created and pushed one repository and
\* synchronized another, each dispatched once.
C18_Witness ==
    /\ pc = "done"
    /\ \E n \in Range(new_repos), m \in Range(existing_repos) :
          /\ create[n] = "ok"
          /\ PushedOk(n)
          /\ PushedOk(m)
          /\ dispatched[n] = 1
          /\ dispatched[m] = 1

\* The transfer function keeps the cloned history (it has no squash step).
KeepsHistory(v, fn) == "rewrite" \notin Range(Steps(v, fn))

\* C19: after a successful transfer of a new repository, or of any
\* repository by a function that keeps the history, the destination's
\* default-branch head is the source's default-branch head itself.
C19_OriginalCommitPreserved ==
    \A n \in AllNames :
        (/\ PushedOk(n)
         /\ github[n].commits >= 1
         /\ (n \in Range(new_repos) \/ KeepsHistory(variant, xfer[n].fn))) =>
            ado[xfer[n].dst].refs[xfer[n].branch] = SourceHead(n, github[n].commits)

\* main has left the first pool block.
LeftNewBlock == pc \in {"existing_phase", "existing_join", "report", "done", "raised"}

\* main has left the second pool block (existing_repos is still empty if
\* main left the first one by an exception).
LeftExistingBlock == pc \in {"report", "done", "raised"}

\* C20: in the pool variants, once main has left a pool block, by its end
\* or by an exception of its result loop, every create and transfer task
\* submitted in that block has run and finished.
C20_PoolTasksFinish ==
    UsesThreadPool(variant) =>
        /\ LeftNewBlock => \A n \in Range(new_repos) : CreateDone(n) /\ Done(n)
        /\ LeftExistingBlock => \A n \in Range(existing_repos) : Done(n)

\* C20 witness: main left the first pool block by the exception of the
\* first future, a create task, and the clone_and_push task of another
\* repository, submitted after it, has run to its end.
C20_Witness ==
    /\ UsesThreadPool(variant)
    /\ pc = "raised"
    /\ Len(new_repos) = 2
    /\ create[new_repos[1]] = "raised"
    /\ PushedOk(new_repos[2])

(* ------------------------------------------------------------------ *)
(* Properties of successive runs                                        *)
(* ------------------------------------------------------------------ *)

\* main has taken its destination listing and computed new_repos.
Listed == pc \notin {"start", "list_destination", "list_failed"}

\* C21: a repository that the previous run classified as new, created and
\* pushed with success is in the next run's destination listing, is not in
\* its new_repos, gets no create request, and is in its existing_repos.
C21_CreatedThenExisting ==
    (run >= 2 /\ Listed) =>
        \A n \in mirrored :
            /\ n \in destination_repos
            /\ n \notin Range(new_repos)
            /\ \A c \in createReqs : c.src # n /\ c.dst # CreateName(variant, n)
            /\ ExistingComputed => n \in Range(existing_repos)

\* C21 witness: a second run that ended after synchronizing the repository
\* the first run created and pushed.
C21_Witness ==
    /\ run = 2
    /\ pc = "done"
    /\ \E n \in mirrored : n \in Range(existing_repos) /\ PushedOk(n)

(* ------------------------------------------------------------------ *)
(* Properties of the reported outcome                                   *)
(* ------------------------------------------------------------------ *)

\* The transfer of n returned before its clone, for want of a default branch.
SkippedEmpty(n) == xfer[n].branch = None /\ "clone" \notin xfer[n].ran

\* The force push of the transfer of n updated the destination.
DestinationUpdated(n) ==
    \E p \in pushes : p.src = n /\ p.fn = xfer[n].fn /\ p.ok

\* C22: a transfer that returned no error skipped an empty repository
\* before its clone or its force push updated the destination; and at the
\* end of a run every selected repository with commits whose destination
\* was not updated has an error outcome.
C22_NoErrorMeansPushed ==
    /\ \A n \in AllNames :
          xfer[n].result = "ok" => (SkippedEmpty(n) \/ DestinationUpdated(n))
    /\ pc = "done" =>
          \A n \in Selected :
              (github[n].commits >= 1 /\ ~DestinationUpdated(n)) =>
                  xfer[n].result \in {"error", "raised"}

\* C23: within a run no two distinct selected source repositories have the
\* same destination name in their push URL, under any transfer function
\* of the variant, and no two pushes made for distinct source repositories
\* name the same destination repository.
C23_PushTargetsDistinct ==
    /\ \A n, m \in Selected :
          n # m =>
              \A f, g \in TransferFunctions(variant) :
                  PushName(variant, f, n) # PushName(variant, g, m)
    /\ \A p, q \in pushes : p.dst = q.dst => p.src = q.src

\* C23 witness: a run in which the pushes of two distinct source
\* repositories, a new one and an existing one, both updated the destination.
C23_Witness ==
    \E p, q \in pushes :
        /\ p.src # q.src
        /\ p.ok /\ q.ok
        /\ p.src \in Range(new_repos)
        /\ q.src \in Range(existing_repos)

\* A task of the new-repository pool block is queued or running.
NewTaskInFlight(n) ==
    /\ n \in Range(new_repos)
    /\ (create[n] = "queued" \/ InFlight(n))

\* A task of the existing-repository pool block has been submitted.
ExistingTaskSubmitted(m) ==
    /\ m \in Range(existing_repos)
    /\ xfer[m].fn # "none"

\* C24: in the pool variants, while a task for an existing repository is
\* submitted, running or finished, no create or clone_and_push task of the
\* new-repository phase is queued or running.
C24_PhasesDoNotOverlap ==
    UsesThreadPool(variant) =>
        \A n, m \in AllNames :
            ExistingTaskSubmitted(m) => ~NewTaskInFlight(n)

\* C24 witness: a synchronize_and_push task that has cloned and is running,
\* in a run whose first phase created and pushed a new repository.
C24_Witness ==
    /\ UsesThreadPool(variant)
    /\ \E n \in Range(new_repos), m \in Range(existing_repos) :
          /\ create[n] = "ok"
          /\ PushedOk(n)
          /\ InFlight(m)
          /\ "clone" \in xfer[m].ran

====
